---- MODULE Spec2Model ----
(***************************************************************************)
(* gcyt-dlp: the admission-controlled download service of src/main.py and  *)
(* the one-shot job of src/job_main.py.                                    *)
(*                                                                         *)
(* One step of the model is one uninterrupted run of a handler on the      *)
(* asyncio event loop, from one suspension point (await) to the next, or   *)
(* one step of a collaborator (the wait_for timer, the yt-dlp worker       *)
(* thread, the storage client, the ASGI server sending a FileResponse).    *)
(***************************************************************************)
EXTENDS Integers, Sequences, FiniteSets, TLC

\* ------------------------------------------------------------------ bounds
\* Number of requests the clients send during one run of the service.
NumRequests == 3

\* Number of files a Workspace holds at most, in the locator specification.
MaxFiles == 3

\* --------------------------------------------------------------- constants
\* src/main.py:28  MAX_CONCURRENCY = int(os.getenv("MAX_CONCURRENCY", "2"))
MAX_CONCURRENCY == 2

Reqs == 1..NumRequests

\* Python's None for the string-valued fields of a request.
None == "None"

\* Python truthiness of an optional string: None and "" are falsy.
Falsy(s) == s \in {None, ""}

\* a or b, on optional strings.
PyOr(a, b) == IF Falsy(a) THEN b ELSE a

\* ------------------------------------------------------------------ base64
\* The base64 alphabet; the value of a character is its position minus one.
B64Alphabet ==
  << "A","B","C","D","E","F","G","H","I","J","K","L","M","N","O","P",
     "Q","R","S","T","U","V","W","X","Y","Z","a","b","c","d","e","f",
     "g","h","i","j","k","l","m","n","o","p","q","r","s","t","u","v",
     "w","x","y","z","0","1","2","3","4","5","6","7","8","9","+","/" >>

IsB64Char(c) == \E k \in 1..64 : B64Alphabet[k] = c

B64Value(c) == (CHOOSE k \in 1..64 : B64Alphabet[k] = c) - 1

\* binascii.a2b_base64 in its default, non-strict mode, as base64.b64decode
\* calls it: characters outside the alphabet are skipped, "=" counts as
\* padding, a completed pad sequence ends the parse, and a quad left
\* unfinished at the end of the input is an error.
\* st = [pos |-> index of the next character, quad |-> quad_pos,
\*       left |-> leftchar, pads |-> pads, out |-> bytes so far]
RECURSIVE a2b_base64(_, _)
a2b_base64(s, st) ==
  IF st.pos > Len(s)
  THEN IF st.quad # 0 THEN [ok |-> FALSE, bytes |-> << >>]
                      ELSE [ok |-> TRUE, bytes |-> st.out]
  ELSE LET c == s[st.pos]
           nx == st.pos + 1
       IN IF c = "="
          THEN IF st.quad >= 2 /\ st.quad + st.pads + 1 >= 4
               THEN [ok |-> TRUE, bytes |-> st.out]
               ELSE a2b_base64(s, [st EXCEPT !.pos = nx,
                                    !.pads = IF st.quad >= 2 THEN st.pads + 1 ELSE st.pads])
          ELSE IF ~IsB64Char(c)
          THEN a2b_base64(s, [st EXCEPT !.pos = nx])
          ELSE LET v == B64Value(c)
               IN CASE st.quad = 0 ->
                         a2b_base64(s, [st EXCEPT !.pos = nx, !.pads = 0, !.quad = 1, !.left = v])
                    [] st.quad = 1 ->
                         a2b_base64(s, [st EXCEPT !.pos = nx, !.pads = 0, !.quad = 2,
                                          !.left = v % 16,
                                          !.out = Append(st.out, st.left * 4 + v \div 16)])
                    [] st.quad = 2 ->
                         a2b_base64(s, [st EXCEPT !.pos = nx, !.pads = 0, !.quad = 3,
                                          !.left = v % 4,
                                          !.out = Append(st.out, st.left * 16 + v \div 4)])
                    [] OTHER ->
                         a2b_base64(s, [st EXCEPT !.pos = nx, !.pads = 0, !.quad = 0,
                                          !.left = 0,
                                          !.out = Append(st.out, st.left * 64 + v)])

\* base64.b64decode(data_b64): [ok, bytes]; ok = FALSE is binascii.Error.
b64decode(s) ==
  a2b_base64(s, [pos |-> 1, quad |-> 0, left |-> 0, pads |-> 0, out |-> << >>])

\* The printable ASCII characters, code 32 first (code 96, the grave accent,
\* is written by name: the character cannot stand in a string of this language).
Ascii ==
  << " ","!","\"","#","$","%","&","'","(",")","*","+",",","-",".","/",
     "0","1","2","3","4","5","6","7","8","9",":",";","<","=",">","?",
     "@","A","B","C","D","E","F","G","H","I","J","K","L","M","N","O",
     "P","Q","R","S","T","U","V","W","X","Y","Z","[","\\","]","^","_",
     "GRAVE","a","b","c","d","e","f","g","h","i","j","k","l","m","n","o",
     "p","q","r","s","t","u","v","w","x","y","z","{","|","}","~" >>

\* bytes.decode("utf-8") on the byte strings the model's inputs decode to:
\* a printable ASCII byte is its character; a byte that is not (the lone
\* continuation byte 0x80 among the inputs) raises UnicodeDecodeError.
utf8_decode(bytes) ==
  IF \A k \in 1..Len(bytes) : bytes[k] \in 32..126
  THEN [ok |-> TRUE, text |-> [k \in 1..Len(bytes) |-> Ascii[bytes[k] - 31]]]
  ELSE [ok |-> FALSE, text |-> << >>]

\* json.loads on the texts the model's inputs decode to. kind "object" is a
\* dict (url, bucket and object_name are what payload.get returns, None when
\* the key is absent), kind "other" a JSON value that is not an object, kind
\* "error" a json.JSONDecodeError.
JsonUrlBucket ==
  << "{","\"","u","r","l","\"",":","\"","u","\"",",",
     "\"","b","u","c","k","e","t","\"",":","\"","b","\"","}" >>
JsonUrlEmptyBucket ==
  << "{","\"","u","r","l","\"",":","\"","u","\"",",",
     "\"","b","u","c","k","e","t","\"",":","\"","\"","}" >>
JsonUrlOnly == << "{","\"","u","r","l","\"",":","\"","u","\"","}" >>
JsonBucketOnly == << "{","\"","b","u","c","k","e","t","\"",":","\"","b","\"","}" >>
JsonUrlBucketName ==
  << "{","\"","u","r","l","\"",":","\"","u","\"",",",
     "\"","b","u","c","k","e","t","\"",":","\"","b","\"",",",
     "\"","o","b","j","e","c","t","_","n","a","m","e","\"",":","\"","o","\"","}" >>

JsonObject(url, bucket, object_name) ==
  [kind |-> "object", url |-> url, bucket |-> bucket, object_name |-> object_name]
JsonNoObject(kind) ==
  [kind |-> kind, url |-> None, bucket |-> None, object_name |-> None]

json_loads(text) ==
  CASE text = JsonUrlBucket      -> JsonObject("u", "b", None)
    [] text = JsonUrlBucketName  -> JsonObject("u", "b", "o")
    [] text = JsonUrlEmptyBucket -> JsonObject("u", "", None)
    [] text = JsonUrlOnly        -> JsonObject("u", None, None)
    [] text = JsonBucketOnly     -> JsonObject(None, "b", None)
    [] text = << "{", "}" >>     -> JsonObject(None, None, None)
    [] text = << "[", "]" >>     -> JsonNoObject("other")
    [] text = << "1" >>          -> JsonNoObject("other")
    [] OTHER                     -> JsonNoObject("error")

\* json.loads(base64.b64decode(data_b64).decode("utf-8")) of handle_pubsub_push
\* on a string of characters: kind "error" stands for any exception of the
\* three calls.
decode_chars(data) ==
  LET b == b64decode(data)
      t == IF b.ok THEN utf8_decode(b.bytes) ELSE [ok |-> FALSE, text |-> << >>]
  IN IF b.ok /\ t.ok THEN json_loads(t.text)
     ELSE JsonNoObject("error")

\* ---------------------------------------------------------------- requests
\* A request, as the handler reads it:
\*   ep           the endpoint
\*   token        the X-Worker-Token header (None when absent)
\*   to_gcs, url, bucket, object_name   the query parameters of /download, or
\*                the fields of the JSON body of /tasks/handle (None when absent)
\*   has_message, has_data, data   the push envelope of /pubsub/push:
\*                body["message"] is present, it holds "data", and the name of
\*                its string of characters (see DataChars)
Request(ep, token, to_gcs, url, bucket) ==
  [ep |-> ep, token |-> token, to_gcs |-> to_gcs, url |-> url, bucket |-> bucket,
   object_name |-> None, has_message |-> FALSE, has_data |-> FALSE, data |-> "Empty"]

\* The request r with the parameter (or body field) object_name given.
Named(r, object_name) == [r EXCEPT !.object_name = object_name]

Push(token, has_message, has_data, data) ==
  [ep |-> "/pubsub/push", token |-> token, to_gcs |-> TRUE, url |-> None,
   bucket |-> None, object_name |-> None,
   has_message |-> has_message, has_data |-> has_data, data |-> data]

\* base64 of {"url":"u","bucket":"b"}
DataUrlBucket ==
  << "e","y","J","1","c","m","w","i","O","i","J","1","I","i","w","i",
     "Y","n","V","j","a","2","V","0","I","j","o","i","Y","i","J","9" >>
\* base64 of {"url":"u","bucket":"b","object_name":"o"}
DataUrlBucketName ==
  << "e","y","J","1","c","m","w","i","O","i","J","1","I","i","w","i",
     "Y","n","V","j","a","2","V","0","I","j","o","i","Y","i","I","s",
     "I","m","9","i","a","m","V","j","d","F","9","u","Y","W","1","l",
     "I","j","o","i","b","y","J","9" >>
\* DataUrlBucket with a character outside the base64 alphabet in it: not base64
DataUrlBucketJunk ==
  << "e","y","J","1","!","c","m","w","i","O","i","J","1","I","i","w","i",
     "Y","n","V","j","a","2","V","0","I","j","o","i","Y","i","J","9" >>
\* base64 of {"url":"u","bucket":""}
DataUrlEmptyBucket ==
  << "e","y","J","1","c","m","w","i","O","i","J","1","I","i","w","i",
     "Y","n","V","j","a","2","V","0","I","j","o","i","I","n","0","=" >>
\* base64 of {"url":"u"}
DataUrlOnly ==
  << "e","y","J","1","c","m","w","i","O","i","J","1","I","n","0","=" >>
\* base64 of {"bucket":"b"}
DataBucketOnly ==
  << "e","y","J","i","d","W","N","r","Z","X","Q","i","O","i","J","i","I","n","0","=" >>

\* base64 of {} , of the JSON values 1 and [] , and of the byte 0x80
DataEmptyObject == << "e","3","0","=" >>
DataNumber == << "M","Q","=","=" >>
DataArray == << "W","1","0","=" >>
DataNotUtf8 == << "g","A","=","=" >>
\* base64 of {} cut short (incorrect padding), and only characters outside
\* the base64 alphabet
DataBadPadding == << "e","3","0" >>
DataNoAlphabet == << "!","!","!","!" >>

\* The strings message.data is drawn from, by name.
DataNames ==
  { "Empty", "UrlBucket", "UrlBucketName", "UrlBucketJunk", "UrlEmptyBucket",
    "UrlOnly", "BucketOnly",
    "EmptyObject", "Number", "Array", "NotUtf8", "BadPadding", "NoAlphabet" }

DataChars(name) ==
  CASE name = "UrlBucket"      -> DataUrlBucket
    [] name = "UrlBucketName"  -> DataUrlBucketName
    [] name = "UrlBucketJunk"  -> DataUrlBucketJunk
    [] name = "UrlEmptyBucket" -> DataUrlEmptyBucket
    [] name = "UrlOnly"        -> DataUrlOnly
    [] name = "BucketOnly"     -> DataBucketOnly
    [] name = "EmptyObject"    -> DataEmptyObject
    [] name = "Number"         -> DataNumber
    [] name = "Array"          -> DataArray
    [] name = "NotUtf8"        -> DataNotUtf8
    [] name = "BadPadding"     -> DataBadPadding
    [] name = "NoAlphabet"     -> DataNoAlphabet
    [] OTHER                   -> << >>

\* The payload of each of these strings.
Payloads == [name \in DataNames |-> decode_chars(DataChars(name))]

\* payload = json.loads(base64.b64decode(data_b64).decode("utf-8")), on the
\* name of the string.
decode_payload(name) == Payloads[name]

\* The requests of the concurrent specification (Spec): every endpoint, both
\* delivery modes, and /download in Publish mode without a bucket. (The
\* requests a handler rejects before the gate, and /download in Publish mode
\* with a bucket, are among those of IntakeSpec.)
MainRequests ==
  { Request("/download", "s", FALSE, "u", None),
    Request("/download", "s", TRUE, "u", None),
    Request("/tasks/handle", "s", TRUE, "u", "b"),
    Push("s", TRUE, TRUE, "UrlBucket") }

\* The requests of the single-request specification (IntakeSpec): every
\* header, every combination of the fields the intake of a handler reads.
Tokens == {None, "s", "t", "x"}
OptStrings(v) == {None, "", v}
IntakeRequests ==
  { Named(Request("/download", t, g, "u", b), o) :
      t \in Tokens, g \in BOOLEAN, b \in OptStrings("b"), o \in OptStrings("o") }
  \cup { Named(Request("/tasks/handle", t, TRUE, u, b), o) :
      t \in Tokens, u \in OptStrings("u"), b \in OptStrings("b"),
      o \in OptStrings("o") }
  \cup { Push(t, FALSE, FALSE, "Empty") : t \in Tokens }
  \cup { Push(t, TRUE, FALSE, "Empty") : t \in Tokens }
  \cup { Push(t, TRUE, TRUE, d) : t \in Tokens, d \in DataNames }

\* ------------------------------------------------------------------ intake
\* Mutant of require_secret: only WORKER_TOKEN is read, SECRET_TOKEN is ignored.
require_secret_worker_only(e, provided) ==
  IF ~Falsy(e.WORKER_TOKEN) /\ provided # e.WORKER_TOKEN THEN 401 ELSE 0

\* _require_secret: 401 when a secret is configured and the header differs,
\* 0 (no exception) otherwise.
require_secret(e, provided) ==
  LET expected == PyOr(e.WORKER_TOKEN, e.SECRET_TOKEN)
  IN IF ~Falsy(expected) /\ provided # expected THEN 401 ELSE 0

\* The checks "url is required" / "bucket is required for background jobs"
\* of the two background handlers: the status raised, 0 when none is.
RequireUrlBucket(url, bucket) ==
  IF Falsy(url) THEN 400
  ELSE IF Falsy(bucket) THEN 400
  ELSE 0

\* The part of a handler that precedes _semaphore.acquire: the status it
\* raises (0 when it raises none and goes on to the gate) and the handler's
\* locals url, bucket, object_name, to_gcs.
Admit(url, bucket, object_name, to_gcs) ==
  [status |-> 0, url |-> url, bucket |-> bucket, object_name |-> object_name,
   to_gcs |-> to_gcs]
Reject(code) ==
  [status |-> code, url |-> None, bucket |-> None, object_name |-> None,
   to_gcs |-> FALSE]

IntakeDownload(e, r) ==
  IF require_secret(e, r.token) # 0 THEN Reject(401)
  ELSE Admit(r.url, r.bucket, r.object_name, r.to_gcs)

IntakeTasks(e, r) ==
  IF require_secret(e, r.token) # 0 THEN Reject(401)
  ELSE IF RequireUrlBucket(r.url, r.bucket) # 0 THEN Reject(400)
  ELSE Admit(r.url, r.bucket, r.object_name, TRUE)

\* Mutant of IntakePush: the decoding is not wrapped in try/except, so that
\* an undecodable message.data surfaces as an unhandled exception (500).
IntakePush_no_except(e, r) ==
  IF require_secret(e, r.token) # 0 THEN Reject(401)
  ELSE IF ~r.has_message \/ ~r.has_data \/ DataChars(r.data) = << >> THEN Reject(400)
  ELSE LET payload == decode_payload(r.data)
       IN IF payload.kind \in {"error", "other"} THEN Reject(500)
          ELSE IF RequireUrlBucket(payload.url, payload.bucket) # 0 THEN Reject(400)
          ELSE Admit(payload.url, payload.bucket, payload.object_name, TRUE)

\* handle_pubsub_push: a payload that is JSON but no object makes payload.get
\* raise AttributeError outside any try: the server answers 500.
IntakePush(e, r) ==
  IF require_secret(e, r.token) # 0 THEN Reject(401)
  ELSE IF ~r.has_message \/ ~r.has_data \/ DataChars(r.data) = << >> THEN Reject(400)
  ELSE LET payload == decode_payload(r.data)
       IN IF payload.kind = "error" THEN Reject(400)
          ELSE IF payload.kind = "other" THEN Reject(500)
          ELSE IF RequireUrlBucket(payload.url, payload.bucket) # 0 THEN Reject(400)
          ELSE Admit(payload.url, payload.bucket, payload.object_name, TRUE)

Intake(e, r) ==
  CASE r.ep = "/download"     -> IntakeDownload(e, r)
    [] r.ep = "/tasks/handle" -> IntakeTasks(e, r)
    [] OTHER                  -> IntakePush(e, r)

\* ------------------------------------------------------------------- state
VARIABLES
  env,          \* the process environment and imports: WORKER_TOKEN, SECRET_TOKEN, HAS_GCS
  sem_value,    \* _semaphore._value
  sem_waiters,  \* _semaphore._waiters: the requests whose acquire has a future queued
  fut,          \* the state of that future: "none", "pending", "result", "cancelled"
  must_cancel,  \* the waiting task was cancelled after its future was resolved
  req,          \* the request each client sent (NoRequest before it is sent)
  pc,           \* where each request's handler stands
  status,       \* the HTTP status answered (0: none yet)
  tmpdir,       \* the handler's local tmpdir is not None
  dirs,         \* the temporary directories that exist (named by their creator)
  loop_busy,    \* the request whose handler blocks the event loop (0: none)
  disconnected, \* the client closed the connection during the transmission
  calls,        \* per request, how often it called each operation
  retrieved,    \* what the Retriever of each request ended in (NoFetch before)
  video_path,   \* the handler's local video_path (NoPath while unbound)
  uploads,      \* the publish call of each request, as the Publisher saw it
  body          \* the response of each request

vars == << env, sem_value, sem_waiters, fut, must_cancel, req, pc, status,
           tmpdir, dirs, loop_busy, disconnected, calls, retrieved, video_path,
           uploads, body >>

NoRequest == Request("none", None, FALSE, None, None)

NoCalls == [acquire |-> 0, release |-> 0, mkdtemp |-> 0, fetch |-> 0,
            publish |-> 0, rmtree |-> 0]

\* The handler's locals url, bucket, object_name, to_gcs of request i.
Locals(i) == Intake(env, req[i])

\* --------------------------------------------------------------- semaphore
\* The semaphore as a value: [value, waiters, fut].
Sem == [value |-> sem_value, waiters |-> sem_waiters, fut |-> fut]

\* Mutant of locked: the counter is not looked at, only the waiters are.
locked_ignores_value(s) ==
  \E k \in 1..Len(s.waiters) : s.fut[s.waiters[k]] # "cancelled"

\* Semaphore.locked
locked(s) ==
  s.value = 0 \/ \E k \in 1..Len(s.waiters) : s.fut[s.waiters[k]] # "cancelled"

\* Semaphore._wake_up_next: the first waiter whose future is not done gets
\* the permit (the counter is decremented on its behalf).
wake_up_next(s) ==
  LET pending == {k \in 1..Len(s.waiters) : s.fut[s.waiters[k]] = "pending"}
  IN IF pending = {} THEN s
     ELSE LET k == CHOOSE k \in pending : \A m \in pending : k <= m
          IN [s EXCEPT !.value = s.value - 1, !.fut[s.waiters[k]] = "result"]

\* Semaphore.release
release(s) == wake_up_next([s EXCEPT !.value = s.value + 1])

\* self._waiters.remove(fut)
RemoveWaiter(s, i) ==
  [s EXCEPT !.waiters = SelectSeq(s.waiters, LAMBDA j : j # i), !.fut[i] = "none"]

\* Mutant of acquire_enter: the handler goes on without taking a permit.
acquire_enter_no_permit(s, i) == s

\* Semaphore.acquire up to its first suspension: the permit at once when the
\* semaphore is not locked, a future queued otherwise.
acquire_enter(s, i) ==
  IF ~locked(s) THEN [s EXCEPT !.value = s.value - 1]
  ELSE [s EXCEPT !.waiters = Append(s.waiters, i), !.fut[i] = "pending"]

\* Semaphore.acquire from "await fut" on, the future resolved and the task not
\* cancelled: remove the future, pass a spare permit on, return True.
acquire_granted(s, i) ==
  LET t == RemoveWaiter(s, i)
  IN IF t.value > 0 THEN wake_up_next(t) ELSE t

\* Mutant of acquire_cancelled: a cancelled waiter keeps the permit its
\* resolved future carried (the permit is lost).
acquire_cancelled_keeps(s, i) == RemoveWaiter(s, i)

\* Semaphore.acquire from "await fut" on, the task cancelled: when the future
\* was resolved already, the permit it carried goes back and is passed on.
acquire_cancelled(s, i) ==
  LET t == RemoveWaiter(s, i)
  IN IF s.fut[i] # "cancelled"
     THEN wake_up_next([t EXCEPT !.value = t.value + 1])
     ELSE t

SetSem(s) ==
  /\ sem_value' = s.value
  /\ sem_waiters' = s.waiters
  /\ fut' = s.fut

\* ---------------------------------------------------------------- handlers
Bump(c, op) == [c EXCEPT ![op] = @ + 1]

\* --- the Retriever and the ArtifactLocator (_download_with_ytdlp)
\* A file of a Workspace: its name and its st_size.
File(name, size) == [name |-> name, size |-> size]

\* No path (the local video_path is unbound).
NoPath == File(None, 0)

\* The names yt-dlp gives the files it writes for one title: the merged
\* file, the two streams it was merged from, a partial download.
FileNamePool == << "clip.mp4", "clip.f137.mp4", "clip.f140.m4a", "clip.mp4.part" >>
FileNames == {FileNamePool[k] : k \in 1..MaxFiles}

\* The name ydl.prepare_filename predicts for a download that post-processing
\* then stores under another name: no file of the Workspace has it.
PredictedName == "clip.webm"

\* The byte sizes of the files.
Sizes == {3, 10, 500}

\* What the Retriever (ydl.extract_info, then the filename it reports) ends
\* in: exc is "DownloadError" or "none"; reported is the name of the path it
\* reports; files is the Workspace after the call, in the order
\* tmpdir.glob("*") enumerates it.
Fetched(exc, reported, files) == [exc |-> exc, reported |-> reported, files |-> files]

\* No Retriever call has returned.
NoFetch == Fetched("none", None, << >>)

\* path.exists(), for a path of the Workspace.
Exists(name, files) == \E k \in 1..Len(files) : files[k].name = name

\* max(candidates, key=lambda p: p.stat().st_size) from candidate k on, best
\* being the largest so far: a later candidate replaces it only when its
\* size is greater.
RECURSIVE max_by_size(_, _, _)
max_by_size(files, k, best) ==
  IF k > Len(files) THEN best
  ELSE max_by_size(files, k + 1, IF files[k].size > best.size THEN files[k] ELSE best)

\* Mutant of locate: the fallback takes the first candidate, not the largest.
locate_first(reported, files) ==
  IF Exists(reported, files)
  THEN [exc |-> "none", path |-> CHOOSE f \in {files[k] : k \in 1..Len(files)} : f.name = reported]
  ELSE IF files = << >>
  THEN [exc |-> "FileNotFoundError", path |-> NoPath]
  ELSE [exc |-> "none", path |-> files[1]]

\* The ArtifactLocator, lines 59-67 of _download_with_ytdlp: the reported
\* path when it exists, else the largest file of the Workspace, else
\* FileNotFoundError.
locate(reported, files) ==
  IF Exists(reported, files)
  THEN [exc |-> "none", path |-> CHOOSE f \in {files[k] : k \in 1..Len(files)} : f.name = reported]
  ELSE IF files = << >>
  THEN [exc |-> "FileNotFoundError", path |-> NoPath]
  ELSE [exc |-> "none", path |-> max_by_size(files, 2, files[1])]

\* _download_with_ytdlp: a DownloadError of the Retriever propagates,
\* otherwise the ArtifactLocator decides.
download_with_ytdlp(f) ==
  IF f.exc # "none" THEN [exc |-> f.exc, path |-> NoPath]
  ELSE locate(f.reported, f.files)

\* The Workspaces of at most n files, all of different names.
Workspaces(n) ==
  { w \in UNION { [1..k -> [name : FileNames, size : Sizes]] : k \in 0..n } :
      \A a, b \in 1..Len(w) : a # b => w[a].name # w[b].name }

\* The Retriever of the concurrent specification: it fails, or it leaves
\* the file it reports. (A Retriever that leaves nothing makes the handler
\* raise on the same path as one that fails, with another exception; it is
\* among the outcomes of the single-request specifications.)
MainFetches ==
  { Fetched("DownloadError", "clip.mp4", << >>),
    Fetched("none", "clip.mp4", << File("clip.mp4", 10) >>) }

\* The Retriever of the single-request specifications: also one that leaves
\* nothing, and one that leaves a file under another name than the reported
\* one, next to a smaller one.
IntakeFetches ==
  MainFetches
  \cup { Fetched("none", "clip.mp4", << >>),
         Fetched("none", "clip.mp4",
                 << File("clip.f140.m4a", 3), File("clip.f137.mp4", 500) >>) }

\* The Retriever of the locator specification: every Workspace of at most
\* MaxFiles files, every reported name.
LocatorFetches ==
  { Fetched("none", n, w) :
      n \in FileNames \cup {PredictedName}, w \in Workspaces(MaxFiles) }
  \cup { Fetched("DownloadError", FileNamePool[1], << >>) }

\* --- the Publisher (_upload_to_gcs)
\* Mutant of upload_to_gcs: _HAS_GCS is not looked at, the call goes on to
\* the storage client.
upload_to_gcs_unchecked(has_gcs, file_path, bucket_name, object_name) ==
  IF Falsy(bucket_name) THEN [exc |-> "ValueError", blob |-> None]
  ELSE [exc |-> "none",
        blob |-> IF object_name = None THEN file_path.name ELSE object_name]

\* The call _upload_to_gcs(file_path, bucket_name, object_name) up to the
\* first request to the store: the exception it raises ("none" when it goes
\* on to upload) and the name of the blob it uploads to.
upload_to_gcs(has_gcs, file_path, bucket_name, object_name) ==
  IF ~has_gcs THEN [exc |-> "RuntimeError", blob |-> None]
  ELSE IF Falsy(bucket_name) THEN [exc |-> "ValueError", blob |-> None]
  ELSE [exc |-> "none",
        blob |-> IF object_name = None THEN file_path.name ELSE object_name]

\* A publish call as the Publisher sees it: its three arguments, the blob
\* it wrote to, and what it returned (the public URL; None until then, or
\* when it raised).
Upload(file_path, bucket_name, object_name, blob) ==
  [file_path |-> file_path, bucket_name |-> bucket_name, object_name |-> object_name,
   blob |-> blob, returned |-> None]
NoUpload == Upload(NoPath, None, None, None)

\* What blob.upload_from_filename / make_public / public_url end in: a URL,
\* or an exception of the storage client.
MainPublishes == {"https://storage.test/1", "GoogleAPIError"}
IntakePublishes == MainPublishes \cup {"https://storage.test/2"}
IsUrl(p) == p # "GoogleAPIError"

\* --- responses
\* The response of a handler: kind "uploaded" is the JSONResponse of Publish
\* mode, "file" the FileResponse of Stream mode, "error" an HTTPException
\* with its detail, "none" no response yet.
Response(kind, bucket, object_name, url, size, detail) ==
  [kind |-> kind, bucket |-> bucket, object_name |-> object_name, url |-> url,
   size |-> size, detail |-> detail]
NoResponse == Response("none", None, None, None, 0, None)
ErrorResponse(detail) == Response("error", None, None, None, 0, detail)

\* JSONResponse({"status": "uploaded", ...}), lines 109-115.
UploadedResponse(bucket, object_name, path, public_url) ==
  Response("uploaded", bucket, PyOr(object_name, path.name), public_url,
           path.size, None)

\* FileResponse(path=str(video_path), filename=video_path.name, ...).
FileResponse(path) ==
  Response("file", None, path.name, None, path.size, None)

\* The detail of the HTTPException a handler raises for an exception.
detail_of(exc) ==
  CASE exc = "DownloadError"     -> "yt-dlp error"
    [] exc = "FileNotFoundError" -> "Downloaded file not found"
    [] exc = "RuntimeError"      -> "google-cloud-storage is not installed"
    [] exc = "ValueError"        -> "bucket_name required"
    [] exc = "HTTPException"     -> "400: bucket is required when to_gcs=true"
    [] OTHER                     -> exc

\* Mutant of except_status: every exception is answered 500.
except_status_all_500(exc) == 500

\* The except clauses of the handlers: DownloadError is answered 400, any
\* other exception (an HTTPException raised inside the try included) 500.
except_status(exc) == IF exc = "DownloadError" THEN 400 ELSE 500

\* Mutant of finally_rmtree: download removes the directory in its finally
\* block in Stream mode too.
finally_rmtree_always(ep, has_tmpdir, to_gcs) == has_tmpdir

\* Mutant of finally_rmtree: the finally block removes nothing.
finally_rmtree_never(ep, has_tmpdir, to_gcs) == FALSE

\* The condition of the rmtree in the finally block: "tmpdir is not None and
\* to_gcs" in download, "tmpdir is not None" in the background handlers.
finally_rmtree(ep, has_tmpdir, to_gcs) ==
  IF ep = "/download" THEN has_tmpdir /\ to_gcs ELSE has_tmpdir

\* Mutants of finally_release: the permit is released twice; it is not
\* released at all.
finally_release_twice(s) == release(release(s))
finally_release_missing(s) == s

\* The _semaphore.release() of the finally block.
finally_release(s) == release(s)

\* Mutant of run_in_threadpool: _download_with_ytdlp is called on the event
\* loop, which request i then holds until the call returns.
call_inline(i) == i

\* await run_in_threadpool(_download_with_ytdlp, ...): who holds the event
\* loop while the call runs: nobody (0), the call is on a worker thread and
\* the handler is suspended.
run_in_threadpool(i) == 0

\* The synchronous call _upload_to_gcs(...) in the handler: who holds the
\* event loop while the storage client runs: the calling request.
call_upload(i) == i

\* The try block up to its first suspension: mkdtemp, then the Retriever is
\* started. c is the request's call record so far.
EnterTry(i, c) ==
  /\ tmpdir' = [tmpdir EXCEPT ![i] = TRUE]
  /\ dirs' = dirs \cup {i}
  /\ calls' = [calls EXCEPT ![i] = Bump(Bump(c, "mkdtemp"), "fetch")]
  /\ pc' = [pc EXCEPT ![i] = "fetch"]
  /\ loop_busy' = run_in_threadpool(i)

\* Mutant of after_exception: the handler starts the Retriever again.
after_exception_retry(exc) == IF exc = "DownloadError" THEN "fetch" ELSE "done"

\* Where a handler stands after an exception left its try block: the
\* HTTPException goes out, nothing is tried again.
after_exception(exc) == "done"

\* The handler leaves its try block: the finally block runs (release, then
\* the conditional rmtree) and the response or the exception goes out.
LeaveTry(i, code, resp, next, c) ==
  LET rm == finally_rmtree(req[i].ep, tmpdir[i], Locals(i).to_gcs)
  IN /\ SetSem(finally_release(Sem))
     /\ dirs' = IF rm THEN dirs \ {i} ELSE dirs
     /\ calls' = [calls EXCEPT ![i] =
                    IF rm THEN Bump(Bump(c, "release"), "rmtree") ELSE Bump(c, "release")]
     /\ status' = [status EXCEPT ![i] = code]
     /\ body' = [body EXCEPT ![i] = resp]
     /\ pc' = [pc EXCEPT ![i] = next]

\* An exception leaves the try block of request i.
Raise(i, exc, c) ==
  LeaveTry(i, except_status(exc), ErrorResponse(detail_of(exc)), after_exception(exc), c)

\* The detail of the HTTPException an intake raises.
intake_detail(code) ==
  CASE code = 401 -> "unauthorized"
    [] code = 400 -> "bad request"
    [] OTHER      -> "Internal Server Error"

\* A client sends request r: the handler runs to its first suspension.
\* Requests are numbered in the order they arrive.
Receive(i, r) ==
  /\ pc[i] = "idle"
  /\ \A j \in Reqs : j < i => pc[j] # "idle"
  /\ loop_busy = 0
  /\ req' = [req EXCEPT ![i] = r]
  /\ LET in == Intake(env, r)
     IN IF in.status # 0
        THEN /\ status' = [status EXCEPT ![i] = in.status]
             /\ body' = [body EXCEPT ![i] = ErrorResponse(intake_detail(in.status))]
             /\ pc' = [pc EXCEPT ![i] = "done"]
             /\ UNCHANGED << sem_value, sem_waiters, fut, tmpdir, dirs, calls, loop_busy >>
        ELSE LET s == acquire_enter(Sem, i)
             IN /\ SetSem(s)
                /\ IF s.fut[i] = "pending"
                   THEN /\ pc' = [pc EXCEPT ![i] = "acquire"]
                        /\ UNCHANGED << tmpdir, dirs, calls, loop_busy >>
                   ELSE EnterTry(i, Bump(calls[i], "acquire"))
                /\ UNCHANGED << status, body >>
  /\ UNCHANGED << env, must_cancel, disconnected, retrieved, video_path, uploads >>

\* The timer of asyncio.wait_for fires (REQ_QUEUE_TIMEOUT elapsed): the
\* waiting task is cancelled. A pending future is cancelled with it; a future
\* resolved already leaves the task marked to be cancelled when it resumes.
TimerFires(i) ==
  /\ pc[i] = "acquire"
  /\ loop_busy = 0
  /\ ~must_cancel[i]
  /\ fut[i] \in {"pending", "result"}
  /\ IF fut[i] = "pending"
     THEN /\ fut' = [fut EXCEPT ![i] = "cancelled"]
          /\ UNCHANGED must_cancel
     ELSE /\ must_cancel' = [must_cancel EXCEPT ![i] = TRUE]
          /\ UNCHANGED fut
  /\ UNCHANGED << env, sem_value, sem_waiters, req, pc, status, tmpdir, dirs,
                  loop_busy, disconnected, calls, retrieved, video_path, uploads,
                  body >>

\* The task waiting in acquire resumes: with the permit, or with the
\* cancellation that wait_for turns into TimeoutError (answered 503).
AcquireResume(i) ==
  /\ pc[i] = "acquire"
  /\ loop_busy = 0
  /\ fut[i] \in {"result", "cancelled"}
  /\ IF fut[i] = "result" /\ ~must_cancel[i]
     THEN /\ SetSem(acquire_granted(Sem, i))
          /\ EnterTry(i, Bump(calls[i], "acquire"))
          /\ UNCHANGED << status, body >>
     ELSE /\ SetSem(acquire_cancelled(Sem, i))
          /\ status' = [status EXCEPT ![i] = 503]
          /\ body' = [body EXCEPT ![i] = ErrorResponse("Busy, try again later")]
          /\ pc' = [pc EXCEPT ![i] = "done"]
          /\ UNCHANGED << tmpdir, dirs, calls, loop_busy >>
  /\ must_cancel' = [must_cancel EXCEPT ![i] = FALSE]
  /\ UNCHANGED << env, req, disconnected, retrieved, video_path, uploads >>

\* The worker thread returns from _download_with_ytdlp (the Retriever ended
\* as f says) and the handler resumes: an exception leaves the try block; a
\* path is streamed (FileResponse) or published (_upload_to_gcs, called on
\* the event loop, which it holds for as long as the storage client takes).
FetchReturn(i, f) ==
  /\ pc[i] = "fetch"
  /\ loop_busy = run_in_threadpool(i)
  /\ retrieved' = [retrieved EXCEPT ![i] = f]
  /\ LET l == Locals(i)
         got == download_with_ytdlp(f)
         up == upload_to_gcs(env.HAS_GCS, got.path, l.bucket, l.object_name)
         call == Upload(got.path, l.bucket, l.object_name, up.blob)
     IN /\ video_path' = [video_path EXCEPT ![i] = got.path]
        /\ IF got.exc # "none"
           THEN /\ Raise(i, got.exc, calls[i])
                /\ loop_busy' = 0
                /\ UNCHANGED uploads
           ELSE IF ~l.to_gcs
           THEN /\ LeaveTry(i, 200, FileResponse(got.path), "send", calls[i])
                /\ loop_busy' = 0
                /\ UNCHANGED uploads
           ELSE IF req[i].ep = "/download" /\ Falsy(l.bucket)
           THEN /\ Raise(i, "HTTPException", calls[i])
                /\ loop_busy' = 0
                /\ UNCHANGED uploads
           ELSE IF up.exc # "none"
           THEN /\ Raise(i, up.exc, Bump(calls[i], "publish"))
                /\ uploads' = [uploads EXCEPT ![i] = call]
                /\ loop_busy' = 0
           ELSE /\ pc' = [pc EXCEPT ![i] = "publish"]
                /\ calls' = [calls EXCEPT ![i] = Bump(@, "publish")]
                /\ uploads' = [uploads EXCEPT ![i] = call]
                /\ loop_busy' = call_upload(i)
                /\ UNCHANGED << sem_value, sem_waiters, fut, status, dirs, body >>
  /\ UNCHANGED << env, must_cancel, req, tmpdir, disconnected >>

\* _upload_to_gcs returns the public URL p, or the storage client raises p.
PublishReturn(i, p) ==
  /\ pc[i] = "publish"
  /\ loop_busy = call_upload(i)
  /\ LET l == Locals(i)
     IN IF IsUrl(p)
        THEN /\ LeaveTry(i, 200, UploadedResponse(l.bucket, l.object_name, video_path[i], p),
                         "done", calls[i])
             /\ uploads' = [uploads EXCEPT ![i].returned = p]
        ELSE /\ Raise(i, p, calls[i])
             /\ UNCHANGED uploads
  /\ loop_busy' = 0
  /\ UNCHANGED << env, must_cancel, req, tmpdir, disconnected, retrieved, video_path >>

\* The server has transmitted the FileResponse to its end (after a
\* disconnect its sends are dropped and the response still runs to its end):
\* the response awaits its background task.
SendComplete(i) ==
  /\ pc[i] = "send"
  /\ loop_busy = 0
  /\ pc' = [pc EXCEPT ![i] = "background"]
  /\ UNCHANGED << env, sem_value, sem_waiters, fut, must_cancel, req, status,
                  tmpdir, dirs, loop_busy, disconnected, calls, retrieved,
                  video_path, uploads, body >>

\* The client closes the connection while the response is transmitted.
ClientDisconnect(i) ==
  /\ pc[i] = "send"
  /\ ~disconnected[i]
  /\ disconnected' = [disconnected EXCEPT ![i] = TRUE]
  /\ UNCHANGED << env, sem_value, sem_waiters, fut, must_cancel, req, pc, status,
                  tmpdir, dirs, loop_busy, calls, retrieved, video_path, uploads,
                  body >>

\* BackgroundTask(shutil.rmtree, tmpdir, ignore_errors=True) runs.
RunBackground(i) ==
  /\ pc[i] = "background"
  /\ loop_busy = 0
  /\ dirs' = dirs \ {i}
  /\ calls' = [calls EXCEPT ![i] = Bump(@, "rmtree")]
  /\ pc' = [pc EXCEPT ![i] = "done"]
  /\ UNCHANGED << env, sem_value, sem_waiters, fut, must_cancel, req, status,
                  tmpdir, loop_busy, disconnected, retrieved, video_path, uploads,
                  body >>

\* ----------------------------------------------------------- specification
\* The state of the process before the first request, under environment e.
Start(e) ==
  /\ env = e
  /\ sem_value = MAX_CONCURRENCY
  /\ sem_waiters = << >>
  /\ fut = [i \in Reqs |-> "none"]
  /\ must_cancel = [i \in Reqs |-> FALSE]
  /\ req = [i \in Reqs |-> NoRequest]
  /\ pc = [i \in Reqs |-> "idle"]
  /\ status = [i \in Reqs |-> 0]
  /\ tmpdir = [i \in Reqs |-> FALSE]
  /\ dirs = {}
  /\ loop_busy = 0
  /\ disconnected = [i \in Reqs |-> FALSE]
  /\ calls = [i \in Reqs |-> NoCalls]
  /\ retrieved = [i \in Reqs |-> NoFetch]
  /\ video_path = [i \in Reqs |-> NoPath]
  /\ uploads = [i \in Reqs |-> NoUpload]
  /\ body = [i \in Reqs |-> NoResponse]

\* The service as started: WORKER_TOKEN set, the storage client importable.
Init == Start([WORKER_TOKEN |-> "s", SECRET_TOKEN |-> None, HAS_GCS |-> TRUE])

Next ==
  \E i \in Reqs :
    \/ \E r \in MainRequests : Receive(i, r)
    \/ TimerFires(i)
    \/ AcquireResume(i)
    \/ \E f \in MainFetches : FetchReturn(i, f)
    \/ \E p \in MainPublishes : PublishReturn(i, p)
    \/ SendComplete(i)
    \/ ClientDisconnect(i)
    \/ RunBackground(i)

Spec == Init /\ [][Next]_vars

\* The event loop runs every callback that is ready: a wait_for timer that is
\* due fires, a task whose future is done resumes. Nothing is assumed of
\* the clients, the Retriever, the storage client or the transmission: a
\* fetch or an upload may never return.
LiveSpec ==
  /\ Spec
  /\ \A i \in Reqs : WF_vars(TimerFires(i)) /\ WF_vars(AcquireResume(i))

\* One request at a time, under every environment: the secret in
\* WORKER_TOKEN, in SECRET_TOKEN, in neither; the storage client importable
\* or not.
IntakeInit ==
  \E e \in [WORKER_TOKEN : {None, "", "s"}, SECRET_TOKEN : {None, "s", "t"},
            HAS_GCS : BOOLEAN] : Start(e)

IntakeNext ==
  \/ \E r \in IntakeRequests : Receive(1, r)
  \/ \E f \in IntakeFetches : FetchReturn(1, f)
  \/ \E p \in IntakePublishes : PublishReturn(1, p)
  \/ SendComplete(1)
  \/ ClientDisconnect(1)
  \/ RunBackground(1)

IntakeSpec == IntakeInit /\ [][IntakeNext]_vars

\* One Stream-mode request, the Retriever leaving any Workspace behind.
LocatorNext ==
  \/ Receive(1, Request("/download", "s", FALSE, "u", None))
  \/ pc[1] = "fetch" /\ \E f \in LocatorFetches : FetchReturn(1, f)
  \/ SendComplete(1)
  \/ ClientDisconnect(1)
  \/ RunBackground(1)

LocatorSpec == Init /\ [][LocatorNext]_vars

\* ------------------------------------------------------- the job (job_main)
\* One run of src/job_main.py, in a process of its own. It is kept in slot 1
\* of the state: req[1] holds the environment variables URL, BUCKET and
\* OBJECT_NAME, status[1] the exit code of the process, body[1] what it
\* printed, and the job's main() is synchronous: each of its calls returns
\* before the next statement runs.
JobRun(url, bucket, object_name) ==
  Named(Request("job_main", None, TRUE, url, bucket), object_name)

JobRuns ==
  { JobRun(u, b, o) : u \in OptStrings("u"), b \in OptStrings("b"),
                      o \in OptStrings("o") }

\* Mutant of job_require: only URL is required.
job_require_url_only(url, bucket) ==
  IF Falsy(url) THEN "ERROR: URL env var is required" ELSE None

\* Lines 14-17 of main(): the message of the SystemExit raised, None when
\* none is.
job_require(url, bucket) ==
  IF Falsy(url) THEN "ERROR: URL env var is required"
  ELSE IF Falsy(bucket) THEN "ERROR: BUCKET env var is required"
  ELSE None

\* The process ends: with exit code 1 and message msg after an exception,
\* with exit code 0 after printing "uploaded=<url>".
JobExit(code, resp) ==
  /\ pc' = [pc EXCEPT ![1] = "done"]
  /\ status' = [status EXCEPT ![1] = code]
  /\ body' = [body EXCEPT ![1] = resp]

\* The finally block of main(): shutil.rmtree(tmpdir, ignore_errors=True).
JobFinally(c) ==
  /\ dirs' = dirs \ {1}
  /\ calls' = [calls EXCEPT ![1] = Bump(c, "rmtree")]

\* main() from its start to the call of the Retriever.
JobStart ==
  /\ pc[1] = "idle"
  /\ LET msg == job_require(req[1].url, req[1].bucket)
     IN IF msg # None
        THEN /\ JobExit(1, ErrorResponse(msg))
             /\ UNCHANGED << tmpdir, dirs, calls >>
        ELSE /\ tmpdir' = [tmpdir EXCEPT ![1] = TRUE]
             /\ dirs' = dirs \cup {1}
             /\ calls' = [calls EXCEPT ![1] = Bump(Bump(@, "mkdtemp"), "fetch")]
             /\ pc' = [pc EXCEPT ![1] = "fetch"]
             /\ UNCHANGED << status, body >>
  /\ UNCHANGED << env, sem_value, sem_waiters, fut, must_cancel, req, loop_busy,
                  disconnected, retrieved, video_path, uploads >>

\* _download_with_ytdlp returns (the Retriever ended as f says); on a path,
\* _upload_to_gcs is called.
JobFetchReturn(f) ==
  /\ pc[1] = "fetch"
  /\ retrieved' = [retrieved EXCEPT ![1] = f]
  /\ LET got == download_with_ytdlp(f)
         up == upload_to_gcs(env.HAS_GCS, got.path, req[1].bucket, req[1].object_name)
         call == Upload(got.path, req[1].bucket, req[1].object_name, up.blob)
     IN /\ video_path' = [video_path EXCEPT ![1] = got.path]
        /\ IF got.exc # "none"
           THEN /\ JobFinally(calls[1])
                /\ JobExit(1, ErrorResponse(detail_of(got.exc)))
                /\ UNCHANGED uploads
           ELSE IF up.exc # "none"
           THEN /\ JobFinally(Bump(calls[1], "publish"))
                /\ JobExit(1, ErrorResponse(detail_of(up.exc)))
                /\ uploads' = [uploads EXCEPT ![1] = call]
           ELSE /\ pc' = [pc EXCEPT ![1] = "publish"]
                /\ calls' = [calls EXCEPT ![1] = Bump(@, "publish")]
                /\ uploads' = [uploads EXCEPT ![1] = call]
                /\ UNCHANGED << status, body, dirs >>
  /\ UNCHANGED << env, sem_value, sem_waiters, fut, must_cancel, req, tmpdir,
                  loop_busy, disconnected >>

\* _upload_to_gcs returns the public URL p, or the storage client raises p.
JobPublishReturn(p) ==
  /\ pc[1] = "publish"
  /\ JobFinally(calls[1])
  /\ IF IsUrl(p)
     THEN /\ JobExit(0, Response("printed", None, None, p, 0, None))
          /\ uploads' = [uploads EXCEPT ![1].returned = p]
     ELSE /\ JobExit(1, ErrorResponse(detail_of(p)))
          /\ UNCHANGED uploads
  /\ UNCHANGED << env, sem_value, sem_waiters, fut, must_cancel, req, tmpdir,
                  loop_busy, disconnected, retrieved, video_path >>

\* The job under every environment: URL, BUCKET and OBJECT_NAME unset, empty
\* or set; the storage client importable or not. Importing main creates the
\* semaphore; no token is read.
JobInit ==
  /\ env \in [WORKER_TOKEN : {None}, SECRET_TOKEN : {None}, HAS_GCS : BOOLEAN]
  /\ sem_value = MAX_CONCURRENCY
  /\ sem_waiters = << >>
  /\ fut = [i \in Reqs |-> "none"]
  /\ must_cancel = [i \in Reqs |-> FALSE]
  /\ req \in [Reqs -> JobRuns \cup {NoRequest}]
  /\ req[1] \in JobRuns /\ \A i \in Reqs \ {1} : req[i] = NoRequest
  /\ pc = [i \in Reqs |-> "idle"]
  /\ status = [i \in Reqs |-> 0]
  /\ tmpdir = [i \in Reqs |-> FALSE]
  /\ dirs = {}
  /\ loop_busy = 0
  /\ disconnected = [i \in Reqs |-> FALSE]
  /\ calls = [i \in Reqs |-> NoCalls]
  /\ retrieved = [i \in Reqs |-> NoFetch]
  /\ video_path = [i \in Reqs |-> NoPath]
  /\ uploads = [i \in Reqs |-> NoUpload]
  /\ body = [i \in Reqs |-> NoResponse]

JobNext ==
  \/ JobStart
  \/ \E f \in IntakeFetches : JobFetchReturn(f)
  \/ \E p \in IntakePublishes : JobPublishReturn(p)

JobSpec == JobInit /\ [][JobNext]_vars

\* ------------------------------------------------------------------ claims
\* Request i is past the AdmissionGate: acquire has returned to its handler
\* and the finally block has not released the permit yet.
PastGate(i) == pc[i] \in {"fetch", "publish"}

\* Request i went to the gate: its intake raised nothing.
AtGate(i) == pc[i] # "idle" /\ Locals(i).status = 0

\* The handler of request i has returned or raised (what is left of the
\* request, if anything, is the transmission of its FileResponse).
Returned(i) == pc[i] \in {"send", "background", "done"}

\* Permits that are out of the pool: held by a handler, or carried by the
\* resolved future of a waiter that has not resumed yet.
Holders == {i \in Reqs : calls[i].acquire > calls[i].release}
Carried == {i \in Reqs : fut[i] = "result"}

Background == {"/tasks/handle", "/pubsub/push"}

\* C1: at most MAX_CONCURRENCY requests are past the AdmissionGate in every
\* reachable state, and every request that went to the gate and was never
\* granted a permit is still waiting in acquire or was answered 503.
C1_AtMostKPastGate ==
  /\ Cardinality({i \in Reqs : PastGate(i)}) <= MAX_CONCURRENCY
  /\ \A i \in Reqs :
       AtGate(i) /\ calls[i].acquire = 0 => pc[i] = "acquire" \/ status[i] = 503

\* C1 witness: the pool is exhausted, two requests of different endpoints
\* are past the gate and a third one waits in acquire.
C1_Witness ==
  /\ Cardinality({i \in Reqs : PastGate(i)}) = MAX_CONCURRENCY
  /\ \E i, j \in Reqs : PastGate(i) /\ PastGate(j) /\ req[i].ep # req[j].ep
  /\ \E i \in Reqs : pc[i] = "acquire" /\ fut[i] = "pending"

\* C2 (as claimed): once the lifecycle of a request is complete, the
\* Workspace it created does not exist.
C2_WorkspaceGoneAtEnd ==
  \A i \in Reqs : pc[i] = "done" /\ calls[i].mkdtemp > 0 => i \notin dirs

\* C3: a permit is released exactly once per granted acquisition and never
\* otherwise: the available count stays within 0..MAX_CONCURRENCY, the permits
\* out of the pool are those of the handlers past the gate and of the waiters
\* resolved but not resumed, and the pool is full again once every handler
\* has returned.
C3_PermitAccounting ==
  /\ sem_value \in 0..MAX_CONCURRENCY
  /\ \A i \in Reqs : calls[i].acquire <= 1 /\ calls[i].release <= calls[i].acquire
  /\ \A i \in Reqs : Returned(i) => calls[i].release = calls[i].acquire
  /\ \A i \in Reqs : PastGate(i) <=> i \in Holders
  /\ MAX_CONCURRENCY - sem_value = Cardinality(Holders) + Cardinality(Carried)
  /\ (\A i \in Reqs : pc[i] = "idle" \/ Returned(i)) => sem_value = MAX_CONCURRENCY

\* C3 witness: every request has ended, one timed out at the gate, one
\* released its permit on a failure path and one on the success path.
C3_Witness ==
  /\ \A i \in Reqs : pc[i] = "done"
  /\ \E i \in Reqs : status[i] = 503
  /\ \E i \in Reqs : status[i] = 500 /\ calls[i].release = 1
  /\ \E i \in Reqs : status[i] = 200 /\ calls[i].release = 1

\* The destination of a Publish-mode request is missing or empty.
MissingDestination(r) ==
  CASE r.ep = "/download"     -> r.to_gcs /\ Falsy(r.bucket)
    [] r.ep = "/tasks/handle" -> ~Falsy(r.url) /\ Falsy(r.bucket)
    [] OTHER -> /\ r.has_message /\ r.has_data
                /\ decode_payload(r.data).kind = "object"
                /\ ~Falsy(decode_payload(r.data).url)
                /\ Falsy(decode_payload(r.data).bucket)

\* C4 (as claimed): an authorized Publish-mode request without a destination
\* bucket is answered 400 before it acquires a permit, creates a Workspace or
\* invokes the Retriever.
C4_MissingBucketRejectedFirst ==
  \A i \in Reqs :
    /\ pc[i] # "idle"
    /\ require_secret(env, req[i].token) = 0
    /\ MissingDestination(req[i])
    => /\ pc[i] = "done"
       /\ status[i] = 400
       /\ calls[i] = NoCalls

\* C5: a request whose acquire timed out is answered 503 and has touched
\* nothing (no permit, no release, no Workspace, no Retriever), and no permit
\* is lost to a timeout: every permit is in the pool, held by a handler past
\* the gate, or carried by a resolved waiter still to resume, and a permit
\* stays in the pool next to a pending waiter only while a resolved waiter
\* ahead of it has still to resume and pass it on.
C5_TimeoutLeavesNoTrace ==
  /\ \A i \in Reqs :
       status[i] = 503 =>
         pc[i] = "done" /\ calls[i] = NoCalls /\ ~tmpdir[i] /\ i \notin dirs
         /\ fut[i] = "none"
  /\ sem_value + Cardinality(Holders) + Cardinality(Carried) = MAX_CONCURRENCY
  /\ (sem_value > 0 /\ \E i \in Reqs : fut[i] = "pending")
       => \E j \in Reqs : fut[j] = "result"

\* C5 witness: a waiter was handed the permit that another request
\* released, and its timeout fired before it resumed.
C5_Witness ==
  \E i \in Reqs :
    /\ fut[i] = "result" /\ must_cancel[i]
    /\ \E j \in Reqs : j # i /\ calls[j].release = 1

C7_TransmissionHoldsNoPermit ==
  /\ \A i \in Reqs :
       pc[i] \in {"send", "background"} =>
         calls[i].acquire = 1 /\ calls[i].release = 1 /\ i \notin Holders
  /\ Cardinality({i \in Reqs : PastGate(i)}) + Cardinality(Carried)
       = MAX_CONCURRENCY - sem_value

\* C7 witness: MAX_CONCURRENCY requests are in Fetching while an earlier
\* request is still transmitting.
C7_Witness ==
  /\ Cardinality({i \in Reqs : pc[i] = "fetch"}) = MAX_CONCURRENCY
  /\ \E i \in Reqs : pc[i] = "send"

ExpectedSecret ==
  IF env.WORKER_TOKEN \notin {None, ""} THEN env.WORKER_TOKEN ELSE env.SECRET_TOKEN

\* C8: when a secret is configured and the X-Worker-Token header differs
\* from it, the request is answered 401 without a permit requested, a
\* Workspace created or the Retriever invoked, on every endpoint; when no
\* secret is configured, no request is answered 401.
C8_UnauthorizedBeforeGate ==
  \A i \in Reqs :
    pc[i] # "idle" =>
      /\ ExpectedSecret \notin {None, ""} /\ req[i].token # ExpectedSecret
           => /\ pc[i] = "done" /\ status[i] = 401
              /\ calls[i] = NoCalls /\ ~tmpdir[i] /\ i \notin dirs
              /\ sem_value = MAX_CONCURRENCY /\ sem_waiters = << >>
      /\ ExpectedSecret \in {None, ""} => status[i] # 401

\* C8 witness: a request carrying the value of WORKER_TOKEN was answered 401
\* because WORKER_TOKEN is empty and the secret is that of SECRET_TOKEN.
C8_Witness ==
  \E i \in Reqs :
    /\ status[i] = 401 /\ pc[i] = "done"
    /\ env.WORKER_TOKEN = "" /\ env.SECRET_TOKEN = "t" /\ req[i].token = "s"

\* RFC 4648 base64: groups of four characters of the alphabet, the last
\* one padded with one or two "=".
StrictBase64(s) ==
  /\ Len(s) % 4 = 0
  /\ \A k \in 1..Len(s) :
       \/ IsB64Char(s[k])
       \/ /\ s[k] = "="
          /\ k >= Len(s) - 1
          /\ k > 1
          /\ \A m \in k..Len(s) : s[m] = "="

PublishSucceeded(i) == pc[i] = "done" /\ status[i] = 200 /\ Locals(i).to_gcs

\* C11 (as claimed): a successful Publish-mode request issued exactly one
\* publish call, with the resolved artifact, the requested bucket and the
\* requested object name; its response carries that bucket, the object name
\* (the artifact's filename when no object name was given), the artifact's
\* size and the URL the Publisher returned; and when the response is
\* returned the Workspace is destroyed and the permit released.
C11_PublishContract ==
  \A i \in Reqs :
    PublishSucceeded(i) =>
      LET l == Locals(i)
          artifact == video_path[i]
      IN /\ calls[i].publish = 1
         /\ artifact # NoPath
         /\ uploads[i].file_path = artifact
         /\ uploads[i].bucket_name = l.bucket
         /\ uploads[i].object_name = l.object_name
         /\ body[i].kind = "uploaded"
         /\ body[i].bucket = l.bucket
         /\ body[i].object_name =
              (IF l.object_name = None THEN artifact.name ELSE l.object_name)
         /\ body[i].object_name = uploads[i].blob
         /\ body[i].size = artifact.size
         /\ body[i].url = uploads[i].returned /\ IsUrl(body[i].url)
         /\ body[i].url # None
         /\ i \notin dirs /\ calls[i].rmtree = 1
         /\ calls[i].release = 1 /\ i \notin Holders

\* The handler of request i has resumed from its Retriever call.
HasFetched(i) == pc[i] \notin {"idle", "acquire", "fetch"} /\ calls[i].fetch > 0

\* C12: whatever the Workspace holds and whatever path the Retriever
\* reports, when the Retriever did not fail the located artifact is the
\* reported path if it is in the Workspace; otherwise the request fails
\* with "Downloaded file not found" if the Workspace is empty, and otherwise
\* the artifact is a file of the Workspace that no file exceeds in size, the
\* first of that size in enumeration order.
C12_LocatorPolicy ==
  \A i \in Reqs :
    HasFetched(i) /\ retrieved[i].exc = "none" =>
      LET w == retrieved[i].files
          reported == retrieved[i].reported
          found == video_path[i]
      IN IF \E k \in 1..Len(w) : w[k].name = reported
         THEN found.name = reported /\ \E k \in 1..Len(w) : w[k] = found
         ELSE IF Len(w) = 0
         THEN /\ found = NoPath
              /\ status[i] = 500
              /\ body[i] = ErrorResponse("Downloaded file not found")
         ELSE \E k \in 1..Len(w) :
                /\ w[k] = found
                /\ \A m \in 1..Len(w) : w[m].size <= found.size
                /\ \A m \in 1..(k - 1) : w[m].size < found.size

\* C12 witness: the reported path does not exist, the Workspace holds files
\* of 10, 500 and 3 bytes, and the 500-byte file is being streamed.
C12_Witness ==
  \E i \in Reqs :
    /\ pc[i] = "send"
    /\ Len(retrieved[i].files) = 3
    /\ [k \in 1..3 |-> retrieved[i].files[k].size] = << 10, 500, 3 >>
    /\ ~Exists(retrieved[i].reported, retrieved[i].files)
    /\ video_path[i].size = 500
    /\ body[i].size = 500

\* The Retriever of request i failed (UnfetchableSource); the Retriever
\* returned and the ArtifactLocator found nothing (NoArtifactProduced).
RetrieverFailed(i) == HasFetched(i) /\ retrieved[i].exc = "DownloadError"
LocatorFailed(i) ==
  /\ HasFetched(i) /\ retrieved[i].exc = "none"
  /\ retrieved[i].files = << >>

\* C13: a Retriever failure is answered 400 "yt-dlp error", a locator
\* failure 500 "Downloaded file not found" (two different responses), and in
\* both cases the request has ended with its permit released: it released
\* once what it acquired once and the pool is full again.
C13_FetchFailuresDistinct ==
  \A i \in Reqs :
    /\ RetrieverFailed(i) =>
         status[i] = 400 /\ body[i] = ErrorResponse("yt-dlp error")
    /\ LocatorFailed(i) =>
         status[i] = 500 /\ body[i] = ErrorResponse("Downloaded file not found")
    /\ RetrieverFailed(i) \/ LocatorFailed(i) =>
         /\ pc[i] = "done"
         /\ calls[i].acquire = 1 /\ calls[i].release = 1
         /\ i \notin Holders
         /\ sem_value + Cardinality(Holders) + Cardinality(Carried) = MAX_CONCURRENCY
         /\ calls[i].publish = 0

\* C13 witness: a push request ended in the locator failure, its permit
\* back in the pool.
C13_Witness ==
  \E i \in Reqs :
    /\ req[i].ep = "/pubsub/push" /\ LocatorFailed(i)
    /\ status[i] = 500 /\ calls[i].release = 1 /\ sem_value = MAX_CONCURRENCY

\* What a Stream-mode request ends in, from what its Retriever ended in.
StreamStatus(f) ==
  IF f.exc = "DownloadError" THEN 400
  ELSE IF f.files = << >> THEN 500
  ELSE 200

\* C14: with the object-store client unavailable (_HAS_GCS false), a
\* Publish-mode request whose artifact was fetched and whose bucket is given
\* ends with the error response "google-cloud-storage is not installed"
\* (500), the store never called, its permit released and its Workspace
\* destroyed; and a Stream-mode request never invokes the Publisher and its
\* outcome is a function of the Retriever's outcome alone, the same with and
\* without the store.
C14_StoreUnavailable ==
  \A i \in Reqs :
    /\ ~env.HAS_GCS => pc[i] # "publish" /\ uploads[i].returned = None
    /\ /\ ~env.HAS_GCS /\ HasFetched(i) /\ Locals(i).to_gcs
       /\ video_path[i] # NoPath /\ ~Falsy(Locals(i).bucket)
       => /\ pc[i] = "done" /\ status[i] = 500
          /\ body[i] = ErrorResponse("google-cloud-storage is not installed")
          /\ calls[i].publish = 1 /\ uploads[i].blob = None
          /\ calls[i].release = 1 /\ sem_value = MAX_CONCURRENCY
          /\ calls[i].rmtree = 1 /\ i \notin dirs
    /\ AtGate(i) /\ ~Locals(i).to_gcs =>
         /\ calls[i].publish = 0 /\ uploads[i] = NoUpload
         /\ HasFetched(i) =>
              /\ status[i] = StreamStatus(retrieved[i])
              /\ status[i] = 200 => body[i] = FileResponse(video_path[i])

\* C14 witness: without the store, a background request whose fetch
\* succeeded was answered the configuration failure, Workspace destroyed.
C14_Witness ==
  \E i \in Reqs :
    /\ ~env.HAS_GCS /\ req[i].ep = "/tasks/handle"
    /\ video_path[i] # NoPath
    /\ pc[i] = "done" /\ status[i] = 500
    /\ body[i].detail = "google-cloud-storage is not installed"
    /\ i \notin dirs /\ calls[i].release = 1

C16_PublishIsSuspensionPoint ==
  \A i \in Reqs :
    pc[i] = "publish" =>
      \A j \in Reqs \ {i} :
        /\ pc[j] = "idle" /\ (\A k \in Reqs : k < j => pc[k] # "idle")
             => ENABLED (\E r \in MainRequests : Receive(j, r))
        /\ pc[j] = "acquire" /\ fut[j] = "pending" => ENABLED TimerFires(j)
        /\ pc[j] = "acquire" /\ fut[j] \in {"result", "cancelled"}
             => ENABLED AcquireResume(j)
        /\ pc[j] = "fetch" => ENABLED (\E f \in MainFetches : FetchReturn(j, f))
        /\ pc[j] = "send" => ENABLED SendComplete(j)
        /\ pc[j] = "background" => ENABLED RunBackground(j)

\* C17 (as claimed): a request waiting at the gate eventually leaves it,
\* granted a permit or answered 503, whether or not the requests holding
\* permits ever finish.
C17_NoIndefiniteWait ==
  \A i \in Reqs : (pc[i] = "acquire") ~> (pc[i] # "acquire")

\* Some step of the handler (or of the response) of request i.
StepOf(i) ==
  \/ TimerFires(i)
  \/ AcquireResume(i)
  \/ \E f \in IntakeFetches : FetchReturn(i, f)
  \/ \E p \in IntakePublishes : PublishReturn(i, p)
  \/ SendComplete(i)
  \/ RunBackground(i)

\* The publish call of request i raised.
PublishFailed(i) ==
  calls[i].publish = 1 /\ pc[i] # "publish" /\ uploads[i].returned = None

\* C18: nothing is retried within a request: a request invokes the Retriever
\* at most once and the Publisher at most once; the Publisher is invoked
\* only with the artifact that the Retriever and the ArtifactLocator of the
\* same request produced; and a failure of the Retriever, of the locator or
\* of the Publisher ends the request with an error response, after which
\* the request takes no further step.
C18_NoRetry ==
  \A i \in Reqs :
    /\ calls[i].fetch <= 1 /\ calls[i].publish <= 1
    /\ calls[i].publish = 1 =>
         /\ calls[i].fetch = 1 /\ retrieved[i].exc = "none"
         /\ video_path[i] # NoPath
         /\ \E k \in 1..Len(retrieved[i].files) : retrieved[i].files[k] = video_path[i]
         /\ uploads[i].file_path = video_path[i]
    /\ \/ retrieved[i].exc = "DownloadError"
       \/ retrieved[i] # NoFetch /\ retrieved[i].files = << >>
       \/ PublishFailed(i)
       => /\ pc[i] = "done"
          /\ status[i] \in {400, 500}
          /\ body[i].kind = "error"
          /\ ~ENABLED StepOf(i)
    /\ retrieved[i].exc = "DownloadError" \/ retrieved[i].files = << >>
         => calls[i].publish = 0

\* C18 witness: the Publisher failed after a successful fetch, and the
\* request has ended 500 with one Retriever call and one Publisher call.
C18_Witness ==
  \E i \in Reqs :
    /\ PublishFailed(i) /\ env.HAS_GCS
    /\ pc[i] = "done" /\ status[i] = 500
    /\ calls[i].fetch = 1 /\ calls[i].publish = 1

\* The Workspaces that exist and belong to Publish-mode requests.
PublishDirs == {i \in dirs : Locals(i).to_gcs}

\* C19: a request creates at most one Workspace and only once it was granted
\* a permit; a Workspace exists only between the mkdtemp and the rmtree of
\* the request it is named after, and is gone only by that request's own
\* rmtree; a Publish-mode Workspace exists only while its request holds a
\* permit, so that at most MAX_CONCURRENCY of them exist at once.
C19_WorkspaceOwnership ==
  /\ \A i \in Reqs :
       /\ calls[i].mkdtemp <= 1 /\ calls[i].mkdtemp = calls[i].acquire
       /\ tmpdir[i] <=> calls[i].mkdtemp = 1
       /\ calls[i].rmtree <= calls[i].mkdtemp
       /\ i \in dirs <=> calls[i].mkdtemp = 1 /\ calls[i].rmtree = 0
       /\ video_path[i] # NoPath =>
            \E k \in 1..Len(retrieved[i].files) : retrieved[i].files[k] = video_path[i]
       /\ i \in PublishDirs => i \in Holders
  /\ Cardinality(PublishDirs) <= MAX_CONCURRENCY

\* C19 witness: three Workspaces exist at once, MAX_CONCURRENCY of them of
\* Publish-mode requests holding the permits, the third of a Stream-mode
\* request that is transmitting.
C19_Witness ==
  /\ Cardinality(dirs) = MAX_CONCURRENCY + 1
  /\ Cardinality(PublishDirs) = MAX_CONCURRENCY
  /\ \E i \in dirs : pc[i] = "send"

\* C20: a run of the job with URL or BUCKET missing (unset or empty) exits
\* with an error before any Workspace is created; no run touches the
\* semaphore of main; and a run that created its Workspace has it until it
\* ends and has destroyed it, by one rmtree, when it has ended, whether the
\* upload succeeded or the Retriever, the locator or the Publisher failed.
C20_JobLifecycle ==
  /\ sem_value = MAX_CONCURRENCY /\ sem_waiters = << >>
  /\ calls[1].acquire = 0 /\ calls[1].release = 0
  /\ calls[1].mkdtemp <= 1 /\ calls[1].rmtree <= calls[1].mkdtemp
  /\ Falsy(req[1].url) \/ Falsy(req[1].bucket) =>
       /\ calls[1] = NoCalls /\ dirs = {} /\ ~tmpdir[1]
       /\ pc[1] = "done" => status[1] = 1 /\ body[1].kind = "error"
  /\ pc[1] \in {"fetch", "publish"} => dirs = {1} /\ calls[1].rmtree = 0
  /\ pc[1] = "done" /\ calls[1].mkdtemp = 1 =>
       /\ dirs = {} /\ calls[1].rmtree = 1
       /\ status[1] = 0 <=> uploads[1].returned # None
  /\ pc[1] = "done" => (status[1] = 0 => calls[1].mkdtemp = 1)

\* C20 witness: a run whose Publisher raised has ended with exit code 1 and
\* its Workspace destroyed by one rmtree.
C20_Witness ==
  /\ pc[1] = "done" /\ status[1] = 1
  /\ calls[1].publish = 1 /\ env.HAS_GCS /\ uploads[1].returned = None
  /\ calls[1].mkdtemp = 1 /\ calls[1].rmtree = 1 /\ dirs = {}

====
